---- MODULE Spec2Model ----
(***************************************************************************)
(* Model of the enhanced PubMed MCP server (src/pubmed-node.js): the       *)
(* process-wide rate limiter, makeNcbiRequest, the chunked efetch loop of  *)
(* fetchDetailedArticles and the three tool handlers that use them.        *)
(*                                                                         *)
(* A tool request is a process r \in Reqs with a program counter pc[r];    *)
(* the JavaScript event loop is modelled by interleaving the handlers at   *)
(* their await points.                                                     *)
(*                                                                         *)
(* The code reads the clock and lastRequestTime only through the           *)
(* difference Date.now() - lastRequestTime, and the timer through the time *)
(* left until it is due.  The model keeps these differences instead of     *)
(* absolute milliseconds: sinceLastRequest is Date.now() - lastRequestTime *)
(* (reset to 0 by `lastRequestTime = Date.now()`), counted up to TimeCap.  *)
(***************************************************************************)
EXTENDS Integers, Sequences, FiniteSets, TLC

\* ------------------------------------------------------------------------
\* Program constants (src/pubmed-node.js:32-35, 248, 722)
DEFAULT_MAX_RESULTS == 10
MAX_SEARCH_RESULTS == 500
PMC_MAX_RESULTS == 50
RATE_LIMIT_DELAY == 340
chunkSize == 200

\* ------------------------------------------------------------------------
\* Bounds of the model
NumReq == 2          \* tool requests the process serves concurrently
MaxCalls == 4        \* invocations of rateLimitedRequest by free callers

Reqs == 1..NumReq

\* The clock advances in steps of half and of the whole RATE_LIMIT_DELAY.
TickSteps == {RATE_LIMIT_DELAY \div 2, RATE_LIMIT_DELAY}
\* Differences of time are counted up to TimeCap; beyond RATE_LIMIT_DELAY
\* the code treats all of them alike.
TimeCap == 2 * RATE_LIMIT_DELAY

Min(a, b) == IF a < b THEN a ELSE b
Max(a, b) == IF a > b THEN a ELSE b

\* ------------------------------------------------------------------------
\* JavaScript values that reach the handlers as tool arguments.
\*   t : the kind of value; s : the characters of a string;
\*   h : a finite number, counted in halves (h = 7 is 3.5).
JsUndefined == [t |-> "undefined", s |-> <<>>, h |-> 0]
JsNull      == [t |-> "null",      s |-> <<>>, h |-> 0]
JsNaN       == [t |-> "NaN",       s |-> <<>>, h |-> 0]
JsInfinity  == [t |-> "Infinity",  s |-> <<>>, h |-> 1]
JsNegInfinity == [t |-> "Infinity", s |-> <<>>, h |-> -1]
JsStr(s)    == [t |-> "string",    s |-> s,    h |-> 0]
JsNum(n)    == [t |-> "number",    s |-> <<>>, h |-> 2 * n]
JsHalves(h) == [t |-> "number",    s |-> <<>>, h |-> h]

\* typeof v
TypeOf(v) ==
  CASE v.t \in {"number", "NaN", "Infinity"} -> "number"
    [] v.t = "null" -> "object"
    [] OTHER -> v.t

\* !v
Falsy(v) ==
  \/ v.t \in {"undefined", "null", "NaN"}
  \/ v.t = "string" /\ v.s = <<>>
  \/ v.t = "number" /\ v.h = 0
  \/ v.t = "boolean" /\ v.h = 0

\* String.prototype.trim
WhiteSpace == {" ", "\t", "\n"}

RECURSIVE TrimStart(_)
TrimStart(s) ==
  IF s # <<>> /\ Head(s) \in WhiteSpace THEN TrimStart(Tail(s)) ELSE s

RECURSIVE TrimEnd(_)
TrimEnd(s) ==
  IF s # <<>> /\ s[Len(s)] \in WhiteSpace
  THEN TrimEnd(SubSeq(s, 1, Len(s) - 1))
  ELSE s

Trim(s) == TrimEnd(TrimStart(s))

\* Math.abs, Math.floor, Math.min(v, cap), Math.max(1, v) on numbers
MathAbs(v) == [v EXCEPT !.h = IF v.h < 0 THEN -v.h ELSE v.h]
MathFloor(v) ==
  IF v.t = "number" THEN [v EXCEPT !.h = 2 * ((v.h - (v.h % 2)) \div 2)] ELSE v
MathMin(v, cap) ==
  CASE v.t = "NaN" -> v
    [] v.t = "Infinity" -> IF v.h > 0 THEN JsNum(cap) ELSE v
    [] OTHER -> IF v.h < 2 * cap THEN v ELSE JsNum(cap)
MathMax(lo, v) ==
  CASE v.t = "NaN" -> v
    [] v.t = "Infinity" -> IF v.h > 0 THEN v ELSE JsNum(lo)
    [] OTHER -> IF v.h > 2 * lo THEN v ELSE JsNum(lo)

\* The maxResults validation of both search handlers
\* (default parameter, then the typeof / isNaN test, then the clamp).
EffectiveMaxResultsNoAbs(maxResults, cap) ==
  LET defaulted == IF maxResults.t = "undefined" THEN JsNum(DEFAULT_MAX_RESULTS)
                   ELSE maxResults
      validated == IF TypeOf(defaulted) # "number" \/ defaulted.t = "NaN"
                   THEN JsNum(DEFAULT_MAX_RESULTS) ELSE defaulted
  IN  MathMax(1, MathMin(MathFloor(validated), cap))

EffectiveMaxResultsNoDefault(maxResults, cap) ==
  LET defaulted == maxResults
      validated == IF TypeOf(defaulted) # "number" \/ defaulted.t = "NaN"
                   THEN JsNum(1) ELSE defaulted
  IN  MathMax(1, MathMin(MathFloor(MathAbs(validated)), cap))

EffectiveMaxResults(maxResults, cap) ==
  LET defaulted == IF maxResults.t = "undefined" THEN JsNum(DEFAULT_MAX_RESULTS)
                   ELSE maxResults
      validated == IF TypeOf(defaulted) # "number" \/ defaulted.t = "NaN"
                   THEN JsNum(DEFAULT_MAX_RESULTS) ELSE defaulted
  IN  MathMax(1, MathMin(MathFloor(MathAbs(validated)), cap))

\* ------------------------------------------------------------------------
\* State
VARIABLES
  sinceLastRequest, \* Date.now() - lastRequestTime
  requestQueue,     \* callbacks chained on requestQueue that have not started
  timer,            \* the setTimeout of the callback that is waiting, or NoTimer
  granted,          \* calls whose rateLimitedRequest() resolved, GET not yet issued
  inflight,         \* calls whose axios.get is outstanding
  input,            \* input[r]: the tool name and arguments of request r
  pc,               \* pc[r]: where the handler of request r is suspended
  loc,              \* loc[r]: the handler's local variables
  result,           \* result[r]: what the tool call returned
  nacquired,        \* history: how many times rateLimitedRequest was invoked
  ngrants,          \* history: how many of its callbacks have resolved
  lastGap,          \* history: the time between the latest two grants
  doc               \* one PubmedArticle on its way from XML to display text

vars == <<sinceLastRequest, requestQueue, timer, granted, inflight,
          input, pc, loc, result, nacquired, ngrants, lastGap, doc>>

\* The state of the limiter and of the tool requests
server == <<sinceLastRequest, requestQueue, timer, granted, inflight,
            input, pc, loc, result, nacquired, ngrants, lastGap>>

\* No article is being rendered.
NoDoc == [stage |-> "none"]

\* One makeNcbiRequest call: the n-th remote call of request req.
\* ticket numbers the invocations of rateLimitedRequest in their order.
Call(req, n, endpoint, ids, retmax, ticket) ==
  [req |-> req, n |-> n, endpoint |-> endpoint, ids |-> ids, retmax |-> retmax,
   ticket |-> ticket]

NoCall == Call(0, 0, "", <<>>, 0, 0)
\* remaining: the time until the timer is due (negative once it is overdue)
NoTimer == [armed |-> FALSE, call |-> NoCall, remaining |-> 0]

\* ------------------------------------------------------------------------
\* Tool arguments
Q_crispr == <<"c", "r">>

Queries ==
  { JsUndefined, JsNull, JsStr(<<>>), JsStr(<<" ", "\t">>), JsStr(<<"\n">>),
    JsStr(Q_crispr), JsStr(<<" ", "c", "r", " ">>), JsNum(5) }

MaxResultsInputs ==
  { JsUndefined, JsNull, JsNaN, JsInfinity, JsNegInfinity,
    JsStr(<<"a", "b", "c">>), JsStr(<<"2", "5">>) }
  \cup { JsNum(n) : n \in {-600, -7, -1, 0, 1, 2, 10, 50, 51, 199, 200, 201,
                           400, 401, 450, 500, 501, 1000} }
  \cup { JsHalves(h) : h \in {-15, -1, 1, 7, 1001} }

Pmids ==
  { JsUndefined, JsNull, JsNum(0), JsStr(<<>>), JsNum(355), JsNum(-7), JsHalves(7),
    JsStr(<<"3", "5", "5">>), JsStr(<<"a", "b", "c">>), JsStr(<<"3", "5", "a">>),
    JsStr(<<" ", "3", "5", " ">>), JsStr(<<"\"", "3", "5", "\"">>),
    JsStr(<<"'", "3", "5", "'">>), JsStr(<<"\"", "3", "5", "'">>),
    JsStr(<<"\"", "\"", "3", "\"", "\"">>), JsStr(<<"\"">>),
    JsStr(<<"\"", "a", "\"">>), JsStr(<<"0", "0", "7">>) }

ToolInput(tool, query, max_results, pmid) ==
  [tool |-> tool, query |-> query, max_results |-> max_results, pmid |-> pmid]

NoRequest == ToolInput("none", JsUndefined, JsUndefined, JsUndefined)

\* The tools that are answered without a remote call.
LocalTools == {"retrieve_pubmed_results", "list_pubmed_searches", "get_abstract_help"}

\* Every argument shape, one request at a time.
HandlerInputs ==
  { ToolInput(t, q, JsUndefined, JsUndefined) :
      t \in {"search_pubmed", "search_pmc_fulltext"}, q \in Queries }
  \cup { ToolInput(t, JsStr(Q_crispr), m, JsUndefined) :
      t \in {"search_pubmed", "search_pmc_fulltext"}, m \in MaxResultsInputs }
  \cup { ToolInput("get_full_abstract", JsUndefined, JsUndefined, p) : p \in Pmids }
  \cup { ToolInput(t, JsUndefined, JsUndefined, JsUndefined) : t \in LocalTools }

\* Well-formed requests, served concurrently.
ConcurrentInputs ==
  << ToolInput("search_pubmed", JsStr(Q_crispr), JsNum(2), JsUndefined),
     ToolInput("search_pmc_fulltext", JsStr(Q_crispr), JsNum(2), JsUndefined),
     ToolInput("get_full_abstract", JsUndefined, JsUndefined, JsNum(355)),
     ToolInput("search_pubmed", JsStr(<<>>), JsUndefined, JsUndefined) >>

NoLocals ==
  [ query |-> <<>>, maxResults |-> 0, totalCount |-> 0, pmidStr |-> <<>>,
    pmidList |-> <<>>, i |-> 0, allArticles |-> <<>>, failedChunks |-> <<>>,
    idList |-> <<>>, ncalls |-> 0, gets |-> <<>>, batches |-> <<>>,
    returned |-> [records |-> <<>>], fetchDone |-> FALSE ]

\* What a tool call returns: a text payload (msg names the text, articles the
\* records it renders, detail the error message it quotes) or an McpError.
Pending == [kind |-> "pending", msg |-> "", articles |-> <<>>, detail |-> ""]
Text(msg, articles) ==
  [kind |-> "text", msg |-> msg, articles |-> articles, detail |-> ""]
Fault(msg) == [kind |-> "McpError", msg |-> msg, articles |-> <<>>, detail |-> ""]

InitCommon ==
  /\ sinceLastRequest = TimeCap   \* lastRequestTime = 0 is long ago
  /\ requestQueue = <<>>
  /\ timer = NoTimer
  /\ granted = {}
  /\ inflight = {}
  /\ loc = [r \in Reqs |-> NoLocals]
  /\ result = [r \in Reqs |-> Pending]
  /\ nacquired = 0
  /\ ngrants = 0
  /\ lastGap = 0

Init ==
  /\ InitCommon
  /\ doc = NoDoc
  \* the requests are interchangeable: they are listed by kind
  /\ \E kind \in [Reqs -> 1..Len(ConcurrentInputs)] :
        /\ \A r \in Reqs : r < NumReq => kind[r] <= kind[r + 1]
        /\ input = [r \in Reqs |-> ConcurrentInputs[kind[r]]]
  /\ pc = [r \in Reqs |-> "start"]

\* No tool request: rateLimitedRequest is invoked by free callers.
InitLimiter ==
  /\ InitCommon
  /\ doc = NoDoc
  /\ input = [r \in Reqs |-> NoRequest]
  /\ pc = [r \in Reqs |-> "done"]

InitHandlers ==
  /\ InitCommon
  /\ doc = NoDoc
  /\ \E one \in HandlerInputs :
        input = [r \in Reqs |-> IF r = 1 THEN one ELSE NoRequest]
  /\ pc = [r \in Reqs |-> IF r = 1 THEN "start" ELSE "done"]

\* ------------------------------------------------------------------------
\* Rate limiter (rateLimitedRequest)

\* if (timeSinceLastRequest < RATE_LIMIT_DELAY)
MustWaitInverted(timeSinceLastRequest) == timeSinceLastRequest > RATE_LIMIT_DELAY
MustWait(timeSinceLastRequest) == timeSinceLastRequest < RATE_LIMIT_DELAY

\* setTimeout(resolve, RATE_LIMIT_DELAY - timeSinceLastRequest)
TimerDelay(timeSinceLastRequest) == RATE_LIMIT_DELAY - timeSinceLastRequest

\* requestQueue = requestQueue.then(callback): the callback is chained behind
\* every callback chained before it.
ChainLifo(queue, c) == <<c>> \o queue
ChainDrop(queue, c) == queue
Chain(queue, c) == Append(queue, c)

\* The calls of request r that are somewhere between rateLimitedRequest()
\* and the completion of their GET.
Outstanding(r) ==
  { requestQueue[k] : k \in { j \in 1..Len(requestQueue) : requestQueue[j].req = r } }
  \cup (IF timer.armed /\ timer.call.req = r THEN {timer.call} ELSE {})
  \cup { c \in granted : c.req = r }
  \cup { c \in inflight : c.req = r }

\* makeNcbiRequest, up to its first await: rateLimitedRequest() chains the
\* callback.  The caller resumes in the response action of its pc.
makeNcbiRequest(r, endpoint, ids, retmax) ==
  LET c == Call(r, loc[r].ncalls + 1, endpoint, ids, retmax, nacquired + 1)
  IN  /\ requestQueue' = Chain(requestQueue, c)
      /\ nacquired' = nacquired + 1
      /\ UNCHANGED <<sinceLastRequest, timer, granted, inflight, ngrants,
                     lastGap>>

NoRemoteCall ==
  UNCHANGED <<sinceLastRequest, requestQueue, timer, granted, inflight,
              nacquired, ngrants, lastGap>>

\* lastRequestTime = Date.now(), and the promise of the callback resolves.
Resolve(c) ==
  /\ sinceLastRequest' = 0
  /\ granted' = granted \cup {c}
  /\ ngrants' = ngrants + 1
  /\ lastGap' = sinceLastRequest

\* Promise reactions (microtasks) are run before the event loop takes its
\* next task: a tool request read from stdin, a timer, an HTTP answer.  The
\* reactions of this program are the start of a chained limiter callback,
\* the resumption of makeNcbiRequest after its grant, and the loop of
\* fetchDetailedArticles going on after a batch.
MicrotaskPending ==
  \/ ~timer.armed /\ requestQueue # <<>>
  \/ granted # {}
  \/ \E r \in Reqs : pc[r] = "fetch"

\* The chained callback starts once every earlier callback has resolved.
RunCallback ==
  /\ UNCHANGED doc
  /\ ~timer.armed
  /\ requestQueue # <<>>
  /\ LET c == Head(requestQueue)
         timeSinceLastRequest == sinceLastRequest
     IN  IF MustWait(timeSinceLastRequest)
         THEN /\ timer' = [armed |-> TRUE, call |-> c,
                           remaining |-> TimerDelay(timeSinceLastRequest)]
              /\ UNCHANGED <<sinceLastRequest, granted, ngrants, lastGap>>
         ELSE /\ Resolve(c)
              /\ UNCHANGED timer
  /\ requestQueue' = Tail(requestQueue)
  /\ UNCHANGED <<inflight, input, pc, loc, result, nacquired>>

\* The setTimeout callback runs, no earlier than its delay.
TimerFire ==
  /\ UNCHANGED doc
  /\ ~MicrotaskPending
  /\ timer.armed
  /\ timer.remaining <= 0
  /\ Resolve(timer.call)
  /\ timer' = NoTimer
  /\ UNCHANGED <<requestQueue, inflight, input, pc, loc, result, nacquired>>

\* Time passes.  The clock is only advanced while that can change what the
\* limiter does: until the armed timer is due (it may fire late by less than
\* one step), or while the last grant is recent.
Tick(d) ==
  /\ UNCHANGED doc
  /\ ~MicrotaskPending
  /\ IF timer.armed THEN timer.remaining > 0
                    ELSE sinceLastRequest < RATE_LIMIT_DELAY
  /\ sinceLastRequest' = Min(sinceLastRequest + d, TimeCap)
  /\ timer' = IF timer.armed THEN [timer EXCEPT !.remaining = @ - d] ELSE timer
  /\ UNCHANGED <<requestQueue, granted, inflight,
                 input, pc, loc, result, nacquired, ngrants, lastGap>>

\* Time passes exactly until the armed timer is due.
TickToDeadline ==
  /\ UNCHANGED doc
  /\ ~MicrotaskPending
  /\ timer.armed
  /\ timer.remaining > 0
  /\ sinceLastRequest' = Min(sinceLastRequest + timer.remaining, TimeCap)
  /\ timer' = [timer EXCEPT !.remaining = 0]
  /\ UNCHANGED <<requestQueue, granted, inflight,
                 input, pc, loc, result, nacquired, ngrants, lastGap>>

\* makeNcbiRequest after `await rateLimitedRequest()`: axios.get is issued.
AxiosGetTwice(c) ==
  /\ UNCHANGED doc
  /\ c \in granted
  /\ granted' = granted \ {c}
  /\ inflight' = inflight \cup {c}
  /\ loc' = [loc EXCEPT ![c.req].gets =
              LET get == [n |-> c.n, endpoint |-> c.endpoint, ids |-> c.ids,
                          retmax |-> c.retmax]
              IN  @ \o <<get, get>>]
  /\ UNCHANGED <<sinceLastRequest, requestQueue, timer,
                 input, pc, result, nacquired, ngrants, lastGap>>
AxiosGet(c) ==
  /\ UNCHANGED doc
  /\ c \in granted
  /\ granted' = granted \ {c}
  /\ inflight' = inflight \cup {c}
  /\ loc' = [loc EXCEPT ![c.req].gets =
              Append(@, [n |-> c.n, endpoint |-> c.endpoint, ids |-> c.ids,
                         retmax |-> c.retmax])]
  /\ UNCHANGED <<sinceLastRequest, requestQueue, timer,
                 input, pc, result, nacquired, ngrants, lastGap>>

\* ------------------------------------------------------------------------
\* What the remote service can answer

\* The ids an esearch answer of n ids lists.
IdList(n) == [p \in 1..n |-> 1000 + p]

\* Array.prototype.slice(from, to) with 0 <= from <= to
Slice(list, from, to) == SubSeq(list, from + 1, Min(to, Len(list)))

\* Array.prototype.slice(1, -1) of a string
Slice1Minus1(str) == SubSeq(str, 2, Len(str) - 1)

\* The catch block of makeNcbiRequest: every failure of axios.get becomes a
\* PubMedError, told apart by its message only.
PubMedErrorMessage(failure) ==
  CASE failure = "ECONNABORTED" -> "Request timed out. Please try again."
    [] failure = "status" -> "API request failed with status"
    [] OTHER -> "Failed to fetch data from NCBI"

AxiosFailures == {"ECONNABORTED", "status", "network"}

\* An answer of axios.get: ok = FALSE is a failure of the GET;
\* body tells the shapes of a received answer apart.
HttpFailure(f) == [ok |-> FALSE, failure |-> f, body |-> "", count |-> 0, n |-> 0]
HttpData(body, count, n) ==
  [ok |-> TRUE, failure |-> "", body |-> body, count |-> count, n |-> n]

EsearchLens == {0, 1, 201, 450, 600}

EsearchAnswers ==
  { HttpFailure(f) : f \in AxiosFailures }
  \cup { HttpData("no esearchresult", 0, 0), HttpData("esearchresult", 0, 1) }
  \cup { HttpData("esearchresult", 120, n) : n \in EsearchLens }

\* efetch: XML with an article for every id, XML in which the first id has
\* no MedlineCitation, or text that is not XML.
EfetchAnswers ==
  { HttpFailure(f) : f \in AxiosFailures }
  \cup { HttpData(b, 0, 0) : b \in {"all", "partial", "malformed"} }

\* esummary: a result object with an entry (with uid) for every id, one that
\* lacks the first id, or an answer without result.
EsummaryAnswers ==
  { HttpFailure(f) : f \in AxiosFailures }
  \cup { HttpData(b, 0, 0) : b \in {"all", "partial", "no result"} }

\* The answers drawn while several requests run concurrently.
EsearchAnswersFew ==
  { HttpFailure("ECONNABORTED"), HttpData("esearchresult", 120, 1) }
EfetchAnswersFew == { HttpFailure("status"), HttpData("all", 0, 0) }
EsummaryAnswersFew == { HttpFailure("network"), HttpData("all", 0, 0) }

\* parsePubMedXml, reduced to the articles it resolves with (one per
\* MedlineCitation, carrying the PMID as uid).
Article(id) == [uid |-> id]
ParsedArticles(ids, body) ==
  LET kept == IF body = "partial" THEN Tail(ids) ELSE ids
  IN  [k \in 1..Len(kept) |-> Article(kept[k])]

\* The call request r is awaiting, once its GET is outstanding.
Awaited(r, c) ==
  ~MicrotaskPending /\ c \in inflight /\ c.req = r /\ c.n = loc[r].ncalls

Finish(r, res) ==
  /\ result' = [result EXCEPT ![r] = res]
  /\ pc' = [pc EXCEPT ![r] = "done"]

\* catch (error) of the handlers: a PubMedError becomes a text result.
CaughtAndRethrown(prefix, message) ==
  [kind |-> "McpError", msg |-> "Tool execution failed", articles |-> <<>>,
   detail |-> message]
CaughtPubMedError(prefix, message) ==
  [kind |-> "text", msg |-> prefix, articles |-> <<>>, detail |-> message]

\* ------------------------------------------------------------------------
\* search_pubmed

\* if (!query || !query.trim()); a truthy query that is no string has no
\* trim method: the TypeError leaves the handler and the dispatcher turns it
\* into an McpError.
QueryCheckNoTrim(query) ==
  CASE Falsy(query) -> "empty"
    [] query.t # "string" -> "TypeError"
    [] OTHER -> "ok"
QueryCheck(query) ==
  CASE Falsy(query) -> "empty"
    [] query.t # "string" -> "TypeError"
    [] Trim(query.s) = <<>> -> "empty"
    [] OTHER -> "ok"

\* The effective maxResults is a whole number >= 1.
NumberValue(v) == v.h \div 2

handleSearchPubmed(r) ==
  /\ UNCHANGED doc
  /\ ~MicrotaskPending
  /\ pc[r] = "start"
  /\ input[r].tool = "search_pubmed"
  /\ LET check == QueryCheck(input[r].query)
         maxResults == NumberValue(EffectiveMaxResults(input[r].max_results,
                                                       MAX_SEARCH_RESULTS))
     IN  CASE check = "empty" ->
                /\ Finish(r, Text("Please provide a search query.", <<>>))
                /\ NoRemoteCall
                /\ UNCHANGED <<input, loc>>
           [] check = "TypeError" ->
                /\ Finish(r, Fault("Tool execution failed"))
                /\ NoRemoteCall
                /\ UNCHANGED <<input, loc>>
           [] OTHER ->
                /\ makeNcbiRequest(r, "esearch.fcgi", <<>>, maxResults)
                /\ loc' = [loc EXCEPT ![r].query = Trim(input[r].query.s),
                                      ![r].maxResults = maxResults,
                                      ![r].ncalls = @ + 1]
                /\ pc' = [pc EXCEPT ![r] = "esearch"]
                /\ UNCHANGED <<input, result>>

\* idList.slice(0, maxResults): the ids handed to fetchDetailedArticles
FetchListAll(idList, maxResults) == idList
FetchList(idList, maxResults) == Slice(idList, 0, maxResults)

\* The esearch answer arrives and handleSearchPubmed resumes.
EsearchResponse(r, c, answer) ==
  /\ UNCHANGED doc
  /\ pc[r] = "esearch"
  /\ Awaited(r, c)
  /\ inflight' = inflight \ {c}
  /\ UNCHANGED <<sinceLastRequest, requestQueue, timer, granted, input,
                 nacquired, ngrants, lastGap>>
  /\ CASE ~answer.ok ->
            /\ Finish(r, CaughtPubMedError("PubMed Error", PubMedErrorMessage(answer.failure)))
            /\ UNCHANGED loc
       [] answer.ok /\ (answer.body # "esearchresult" \/ answer.count = 0) ->
            /\ Finish(r, Text("No results found", <<>>))
            /\ UNCHANGED loc
       [] OTHER ->
            \* fetchDetailedArticles(idList.slice(0, maxResults)) is entered
            /\ loc' = [loc EXCEPT ![r].totalCount = answer.count,
                                  ![r].pmidList = FetchList(IdList(answer.n), loc[r].maxResults),
                                  ![r].i = 0,
                                  ![r].allArticles = <<>>,
                                  ![r].failedChunks = <<>>]
            /\ pc' = [pc EXCEPT ![r] = "fetch"]
            /\ UNCHANGED result

\* ------------------------------------------------------------------------
\* fetchDetailedArticles

\* `await makeNcbiRequest(...)` inside the loop body: the loop does not go
\* on before the batch has been answered.
NoAwaitBatch == "fetch"
AwaitBatch == "efetch"

\* What the caller does with the array fetchDetailedArticles returns.
AfterFetch(r, articles) ==
  IF input[r].tool = "get_full_abstract"
  THEN IF Len(articles) = 0
       THEN Text("No article found for PMID", <<>>)
       ELSE Text("Complete Abstract", <<articles[1]>>)
  ELSE IF Len(articles) = 0
       THEN Text("No article details could be retrieved", <<>>)
       ELSE Text("Enhanced PubMed Search", articles)

\* The value of `return allArticles`, as the components the caller can
\* read: the array of articles is all of it.
ReturnValue(allArticles, failedChunks) == [records |-> allArticles]

\* const chunk = pmidList.slice(i, i + chunkSize)
ChunkInclusive(pmidList, i) == Slice(pmidList, i, i + chunkSize + 1)
Chunk(pmidList, i) == Slice(pmidList, i, i + chunkSize)

\* The loop head: the next chunk is requested, or the loop ends and the
\* function returns to the handler, which builds its text.
fetchDetailedArticles(r) ==
  /\ UNCHANGED doc
  /\ pc[r] = "fetch"
  /\ LET pmidList == loc[r].pmidList
         i == loc[r].i
     IN  IF i < Len(pmidList)
         THEN LET chunk == Chunk(pmidList, i)
              IN  /\ makeNcbiRequest(r, "efetch.fcgi", chunk, 0)
                  /\ loc' = [loc EXCEPT ![r].ncalls = @ + 1]
                  /\ pc' = [pc EXCEPT ![r] = AwaitBatch]
                  /\ UNCHANGED <<input, result>>
         ELSE LET ret == ReturnValue(loc[r].allArticles, loc[r].failedChunks)
              IN  /\ loc' = [loc EXCEPT ![r].returned = ret, ![r].fetchDone = TRUE]
                  /\ Finish(r, AfterFetch(r, ret.records))
                  /\ NoRemoteCall
                  /\ UNCHANGED input

\* catch (error) inside the loop
ChunkInfoFirst5(i, chunk, message) ==
  [startIndex |-> i, endIndex |-> i + Len(chunk) - 1, pmids |-> Slice(chunk, 0, 5),
   error |-> message, errorType |-> "PubMedError"]
ChunkInfo(i, chunk, message) ==
  [startIndex |-> i, endIndex |-> i + Len(chunk) - 1, pmids |-> chunk,
   error |-> message, errorType |-> "PubMedError"]

\* What a failed batch does to the loop: the catch block is inside the loop,
\* so the loop goes on with i + chunkSize.
NextIndexAbort(i, len) == len
NextIndex(i, len) == i + chunkSize

\* The efetch answer arrives: the articles are appended, or the failure is
\* recorded; then i += chunkSize.
EfetchResponse(r, c, answer) ==
  /\ UNCHANGED doc
  /\ pc[r] = "efetch"
  /\ Awaited(r, c)
  /\ inflight' = inflight \ {c}
  /\ LET chunk == c.ids
         i == loc[r].i
         failed == ~answer.ok \/ answer.body = "malformed"
         message == IF ~answer.ok THEN PubMedErrorMessage(answer.failure)
                    ELSE "Failed to parse XML"
         articles == IF failed THEN <<>> ELSE ParsedArticles(chunk, answer.body)
     IN  loc' = [loc EXCEPT
           ![r].allArticles = IF failed THEN @ ELSE @ \o articles,
           ![r].failedChunks = IF failed THEN Append(@, ChunkInfo(i, chunk, message)) ELSE @,
           ![r].i = IF failed THEN NextIndex(i, Len(loc[r].pmidList)) ELSE i + chunkSize,
           ![r].batches = Append(@, [ids |-> chunk, failed |-> failed,
                                     message |-> IF failed THEN message ELSE "",
                                     body |-> answer.body])]
  /\ pc' = [pc EXCEPT ![r] = "fetch"]
  /\ UNCHANGED <<sinceLastRequest, requestQueue, timer, granted, input,
                 result, nacquired, ngrants, lastGap>>

\* ------------------------------------------------------------------------
\* get_full_abstract

Digits == {"0", "1", "2", "3", "4", "5", "6", "7", "8", "9"}
DigitChar(d) ==
  CASE d = 0 -> "0" [] d = 1 -> "1" [] d = 2 -> "2" [] d = 3 -> "3" [] d = 4 -> "4"
    [] d = 5 -> "5" [] d = 6 -> "6" [] d = 7 -> "7" [] d = 8 -> "8" [] OTHER -> "9"

RECURSIVE NatToString(_)
NatToString(n) ==
  IF n < 10 THEN <<DigitChar(n)>> ELSE Append(NatToString(n \div 10), DigitChar(n % 10))

\* String(pmid)
StringOf(v) ==
  CASE v.t = "string" -> v.s
    [] v.t = "number" ->
         LET a == IF v.h < 0 THEN -v.h ELSE v.h
             whole == NatToString(a \div 2)
             frac == IF a % 2 = 1 THEN <<".", "5">> ELSE <<>>
         IN  (IF v.h < 0 THEN <<"-">> ELSE <<>>) \o whole \o frac
    [] v.t = "Infinity" ->
         (IF v.h < 0 THEN <<"-">> ELSE <<>>) \o <<"I", "n", "f">>
    [] v.t = "NaN" -> <<"N", "a", "N">>
    [] v.t = "object" -> <<"[", "o", "b", "j", "e", "c", "t", " ", "O", "b", "j", "e", "c", "t", "]">>
    [] OTHER -> <<"u", "n", "d">>

StartsWith(str, ch) == str # <<>> /\ str[1] = ch
EndsWith(str, ch) == str # <<>> /\ str[Len(str)] = ch

\* Remove quotes if present
UnquoteAnyPair(str) ==
  IF (StartsWith(str, "\"") \/ StartsWith(str, "'"))
     /\ (EndsWith(str, "\"") \/ EndsWith(str, "'"))
  THEN Slice1Minus1(str)
  ELSE str
Unquote(str) ==
  IF \/ StartsWith(str, "\"") /\ EndsWith(str, "\"")
     \/ StartsWith(str, "'") /\ EndsWith(str, "'")
  THEN Slice1Minus1(str)
  ELSE str

\* /^\d+$/.test(str)
AllDigits(str) == str # <<>> /\ \A k \in 1..Len(str) : str[k] \in Digits

handleGetFullAbstract(r) ==
  /\ UNCHANGED doc
  /\ ~MicrotaskPending
  /\ pc[r] = "start"
  /\ input[r].tool = "get_full_abstract"
  /\ LET pmid == input[r].pmid
         pmidStr == Unquote(Trim(StringOf(pmid)))
     IN  CASE Falsy(pmid) ->
                /\ Finish(r, Text("Please provide a valid PMID.", <<>>))
                /\ UNCHANGED loc
           [] ~Falsy(pmid) /\ ~AllDigits(pmidStr) ->
                /\ Finish(r, Text("Invalid PMID format", <<>>))
                /\ UNCHANGED loc
           [] OTHER ->
                \* fetchDetailedArticles([pmidStr]) is entered
                /\ loc' = [loc EXCEPT ![r].pmidStr = pmidStr,
                                      ![r].pmidList = <<pmidStr>>,
                                      ![r].i = 0,
                                      ![r].allArticles = <<>>,
                                      ![r].failedChunks = <<>>]
                /\ pc' = [pc EXCEPT ![r] = "fetch"]
                /\ UNCHANGED result
  /\ NoRemoteCall
  /\ UNCHANGED input

\* ------------------------------------------------------------------------
\* search_pmc_fulltext

handleSearchPmcFulltext(r) ==
  /\ UNCHANGED doc
  /\ ~MicrotaskPending
  /\ pc[r] = "start"
  /\ input[r].tool = "search_pmc_fulltext"
  /\ LET check == QueryCheck(input[r].query)
         maxResults == NumberValue(EffectiveMaxResults(input[r].max_results,
                                                       PMC_MAX_RESULTS))
     IN  CASE check = "empty" ->
                /\ Finish(r, Text("Please provide a search query.", <<>>))
                /\ NoRemoteCall
                /\ UNCHANGED <<input, loc>>
           [] check = "TypeError" ->
                /\ Finish(r, Fault("Tool execution failed"))
                /\ NoRemoteCall
                /\ UNCHANGED <<input, loc>>
           [] OTHER ->
                \* search_pmc(query, maxResults) is entered
                /\ makeNcbiRequest(r, "esearch.fcgi", <<>>, maxResults)
                /\ loc' = [loc EXCEPT ![r].query = Trim(input[r].query.s),
                                      ![r].maxResults = maxResults,
                                      ![r].ncalls = @ + 1]
                /\ pc' = [pc EXCEPT ![r] = "pmc_esearch"]
                /\ UNCHANGED <<input, result>>

\* search_pmc resumes with the esearch answer.
PmcEsearchResponse(r, c, answer) ==
  /\ UNCHANGED doc
  /\ pc[r] = "pmc_esearch"
  /\ Awaited(r, c)
  /\ inflight' = inflight \ {c}
  /\ CASE ~answer.ok ->
            /\ Finish(r, CaughtPubMedError("PMC Error", PubMedErrorMessage(answer.failure)))
            /\ UNCHANGED <<loc, requestQueue, nacquired>>
       [] answer.ok /\ (answer.body # "esearchresult" \/ answer.n = 0) ->
            /\ Finish(r, Text("No full-text articles found in PMC", <<>>))
            /\ UNCHANGED <<loc, requestQueue, nacquired>>
       [] OTHER ->
            LET idList == IdList(answer.n)
                next == Call(r, loc[r].ncalls + 1, "esummary.fcgi", idList, 0,
                             nacquired + 1)
            IN  /\ requestQueue' = Chain(requestQueue, next)
                /\ nacquired' = nacquired + 1
                /\ loc' = [loc EXCEPT ![r].idList = idList, ![r].ncalls = @ + 1]
                /\ pc' = [pc EXCEPT ![r] = "pmc_esummary"]
                /\ UNCHANGED result
  /\ UNCHANGED <<sinceLastRequest, timer, granted, input, ngrants,
                 lastGap>>

\* search_pmc resumes with the esummary answer and returns the entries of
\* idList that the result holds with a uid.
PmcEsummaryResponse(r, c, answer) ==
  /\ UNCHANGED doc
  /\ pc[r] = "pmc_esummary"
  /\ Awaited(r, c)
  /\ inflight' = inflight \ {c}
  /\ LET articles == IF answer.ok /\ answer.body # "no result"
                     THEN ParsedArticles(loc[r].idList, answer.body)
                     ELSE <<>>
     IN  Finish(r, IF ~answer.ok
                   THEN CaughtPubMedError("PMC Error", PubMedErrorMessage(answer.failure))
                   ELSE IF Len(articles) = 0
                   THEN Text("No full-text articles found in PMC", <<>>)
                   ELSE Text("PMC Full-Text Search", articles))
  /\ UNCHANGED <<sinceLastRequest, requestQueue, timer, granted, input,
                 loc, nacquired, ngrants, lastGap>>

\* ------------------------------------------------------------------------
\* Article records: parsePubMedXml, extractEnhancedArticleInfo,
\* formatEnhancedArticle.  Text is a sequence of characters.

NoTitleAvailable == <<"N", "o", " ", "t", "i", "t", "l", "e", " ", "a", "v", "a", "i", "l", "a", "b", "l", "e">>
NoAuthorsListed == <<"N", "o", " ", "a", "u", "t", "h", "o", "r", "s", " ", "l", "i", "s", "t", "e", "d">>
NoDateAvailable == <<"N", "o", " ", "d", "a", "t", "e", " ", "a", "v", "a", "i", "l", "a", "b", "l", "e">>
UnknownJournal == <<"U", "n", "k", "n", "o", "w", "n", " ", "j", "o", "u", "r", "n", "a", "l">>
NoPMID == <<"N", "o", " ", "P", "M", "I", "D">>
NoAbstractAvailable == <<"N", "o", " ", "a", "b", "s", "t", "r", "a", "c", "t", " ", "a", "v", "a", "i", "l", "a", "b", "l", "e">>

\* Further JavaScript values: booleans, an object (s: its text property, `_`
\* or `name`, <<>> when it has none) and an array (s: its items).
JsTrue == [t |-> "boolean", s |-> <<>>, h |-> 1]
JsFalse == [t |-> "boolean", s |-> <<>>, h |-> 0]
JsObject(text) == [t |-> "object", s |-> text, h |-> 0]
JsArray(items) == [t |-> "array", s |-> items, h |-> 0]

\* a || b
Or(a, b) == IF Falsy(a) THEN b ELSE a

\* obj._ (also obj.name): the text property of an object; undefined when the
\* object has none, and for a string.
TextOf(v) == IF v.t = "object" /\ v.s # <<>> THEN JsStr(v.s) ELSE JsUndefined

\* Array.prototype.join: undefined and null items are joined as ''.
RECURSIVE Join(_, _)
Join(items, sep) ==
  IF items = <<>> THEN <<>>
  ELSE LET first == IF Head(items).t \in {"undefined", "null"} THEN <<>>
                    ELSE StringOf(Head(items))
       IN  IF Len(items) = 1 THEN first
           ELSE first \o sep \o Join(Tail(items), sep)

CommaSpace == <<",", " ">>

\* What xml2js gives for an element (explicitArray, trim, charkey '_',
\* attrkey '$'): undefined when the element is absent, a string when it has
\* no attributes ('' when it is empty), an object when it has attributes
\* (with `_` only when it has text).  label: the Label attribute of an
\* AbstractText, or the IdType attribute of an ArticleId.
Absent == [k |-> "absent", s |-> <<>>, label |-> <<>>]
Str(s) == [k |-> "string", s |-> s, label |-> <<>>]
Obj(s, label) == [k |-> "object", s |-> s, label |-> label]

\* The JavaScript value of an element
ValueOf(e) ==
  CASE e.k = "absent" -> JsUndefined
    [] e.k = "string" -> JsStr(e.s)
    [] OTHER -> JsObject(e.s)

\* parent?.child?.[0]
Child(present, e) == IF present THEN e ELSE Absent

\* One AbstractText: a string is pushed as it is; an object is pushed when
\* it has text, with its Label in front.
AbstractPart(e) ==
  CASE e.k = "string" -> <<JsStr(e.s)>>
    [] e.k = "object" /\ e.s # <<>> ->
         <<JsStr(IF e.label # <<>> THEN e.label \o <<":", " ">> \o e.s ELSE e.s)>>
    [] OTHER -> <<>>

RECURSIVE AbstractParts(_)
AbstractParts(es) ==
  IF es = <<>> THEN <<>> ELSE AbstractPart(Head(es)) \o AbstractParts(Tail(es))

\* One Author: `ForeName LastName`, LastName alone, or nothing.
AuthorName(a) ==
  LET lastName == ValueOf(a.LastName)
      foreName == ValueOf(a.ForeName)
  IN  IF ~Falsy(lastName) /\ ~Falsy(foreName)
      THEN <<JsObject(StringOf(foreName) \o <<" ">> \o StringOf(lastName))>>
      ELSE IF ~Falsy(lastName) THEN <<JsObject(StringOf(lastName))>>
      ELSE <<>>

RECURSIVE AuthorNames(_)
AuthorNames(as) ==
  IF as = <<>> THEN <<>> ELSE AuthorName(Head(as)) \o AuthorNames(Tail(as))

\* [year, month, day].filter(Boolean)
RECURSIVE FilterBoolean(_)
FilterBoolean(vs) ==
  IF vs = <<>> THEN <<>>
  ELSE (IF Falsy(Head(vs)) THEN <<>> ELSE <<Head(vs)>>) \o FilterBoolean(Tail(vs))

\* The ArticleId loop: an id counts when it has an IdType and text; a later
\* id of the same type replaces an earlier one.
RECURSIVE ArticleIds(_, _)
ArticleIds(ids, acc) ==
  IF ids = <<>> THEN acc
  ELSE LET id == Head(ids)
           counts == id.k = "object" /\ id.label # <<>> /\ id.s # <<>>
           next ==
             IF counts /\ id.label = <<"d", "o", "i">>
             THEN [acc EXCEPT !.elocationid = JsStr(<<"d", "o", "i", ":">> \o id.s)]
             ELSE IF counts /\ id.label = <<"p", "m", "c">>
             THEN [acc EXCEPT !.pmcid = JsStr(id.s), !.pmc_available = JsTrue]
             ELSE acc
       IN  ArticleIds(Tail(ids), next)

\* One MeshHeading: a DescriptorName that is truthy is pushed, as it is when
\* it is a string, else as its text property.
MeshTerm(e) ==
  LET descriptorName == ValueOf(e)
  IN  IF Falsy(descriptorName) THEN <<>>
      ELSE IF TypeOf(descriptorName) = "string" THEN <<descriptorName>>
      ELSE <<TextOf(descriptorName)>>

RECURSIVE MeshTerms(_)
MeshTerms(es) == IF es = <<>> THEN <<>> ELSE MeshTerm(Head(es)) \o MeshTerms(Tail(es))

\* One Keyword: a string is pushed as it is, an object when it has text.
Keyword(e) ==
  LET keyword == ValueOf(e)
  IN  IF TypeOf(keyword) = "string" THEN <<keyword>>
      ELSE IF ~Falsy(TextOf(keyword)) THEN <<TextOf(keyword)>>
      ELSE <<>>

RECURSIVE Keywords(_)
Keywords(es) == IF es = <<>> THEN <<>> ELSE Keyword(Head(es)) \o Keywords(Tail(es))

\* An article object none of whose properties is set
EmptyArticle ==
  [ uid |-> JsUndefined, title |-> JsUndefined, abstract |-> JsUndefined,
    authors |-> JsUndefined, fulljournalname |-> JsUndefined, source |-> JsUndefined,
    pubdate |-> JsUndefined, elocationid |-> JsUndefined, pmcid |-> JsUndefined,
    pmc_available |-> JsUndefined, is_pmc |-> JsUndefined,
    mesh_terms |-> JsUndefined, keywords |-> JsUndefined ]

\* The body of parsePubMedXml's loop for one PubmedArticle that has a
\* MedlineCitation: the articleData it pushes.
ArticleData(raw) ==
  LET pmidElem == ValueOf(raw.PMID)
      titleElem == ValueOf(Child(raw.Article, raw.ArticleTitle))
      abstractElem == Child(raw.Article, raw.Abstract)
      authorList == IF raw.Article /\ raw.AuthorList.k = "list" THEN raw.AuthorList.items ELSE <<>>
      journal == raw.Article /\ raw.Journal
      journalTitle == ValueOf(Child(journal, raw.JournalTitle))
      pubDate == Child(journal, raw.PubDate)
      article == IF raw.ArticleIdList.k = "list" THEN raw.ArticleIdList.items ELSE <<>>
      meshList == IF raw.MeshHeadingList.k = "list" THEN raw.MeshHeadingList.items ELSE <<>>
      keywordList == IF raw.KeywordList.k = "list" THEN raw.KeywordList.items ELSE <<>>
      dateParts == FilterBoolean(<<ValueOf(pubDate.Year), ValueOf(pubDate.Month),
                                   ValueOf(pubDate.Day)>>)
      base ==
        [ EmptyArticle EXCEPT
          !.uid = IF Falsy(pmidElem) THEN JsUndefined ELSE Or(TextOf(pmidElem), pmidElem),
          !.title = IF Falsy(titleElem) THEN JsUndefined
                    ELSE IF TypeOf(titleElem) = "string" THEN titleElem
                    ELSE Or(TextOf(titleElem), JsStr(NoTitleAvailable)),
          !.abstract = IF abstractElem.k = "list"
                       THEN Or(JsStr(Join(AbstractParts(abstractElem.items), <<" ">>)),
                               JsStr(NoAbstractAvailable))
                       ELSE JsStr(NoAbstractAvailable),
          !.authors = JsArray(AuthorNames(authorList)),
          !.fulljournalname = IF Falsy(journalTitle) THEN JsUndefined ELSE journalTitle,
          !.pubdate = IF pubDate.k = "absent" THEN JsUndefined
                      ELSE Or(JsStr(Join(dateParts, <<" ">>)), JsStr(NoDateAvailable)),
          !.mesh_terms = JsArray(MeshTerms(meshList)),
          !.keywords = JsArray(Keywords(keywordList)) ]
  IN  ArticleIds(article, base)

\* author => typeof author === 'object' ? author.name : author
AuthorDisplay(author) == IF TypeOf(author) = "object" THEN TextOf(author) ELSE author

RECURSIVE MapAuthors(_)
MapAuthors(as) ==
  IF as = <<>> THEN <<>> ELSE <<AuthorDisplay(Head(as))>> \o MapAuthors(Tail(as))

\* Array.isArray(list) ? list.join(', ') : String(list || '')
ListDisplay(list) ==
  IF list.t = "array" THEN JsStr(Join(list.s, CommaSpace))
  ELSE JsStr(StringOf(Or(list, JsStr(<<>>))))

\* doi.startsWith('doi:') ? doi.substring(4) : doi
StripDoi(doi) ==
  IF Len(doi) >= 4 /\ SubSeq(doi, 1, 4) = <<"d", "o", "i", ":">>
  THEN SubSeq(doi, 5, Len(doi))
  ELSE doi

\* a || b || c ...: the first operand that is truthy, else the last
OrNoFallback(a, b) == a
Fallback(a, b) == Or(a, b)

extractEnhancedArticleInfo(article) ==
  LET authors == Or(article.authors, JsArray(<<>>))
      pmcid == Fallback(article.pmcid, JsStr(<<>>))
      pmcAvailable == IF ~Falsy(pmcid) THEN JsTrue
                      ELSE Or(article.pmc_available, JsFalse)
  IN  [ pmid |-> JsStr(StringOf(Fallback(article.uid, JsStr(NoPMID)))),
        pmcid |-> pmcid,
        title |-> Fallback(article.title, JsStr(NoTitleAvailable)),
        authors |-> Fallback(JsStr(Join(MapAuthors(authors.s), CommaSpace)),
                             JsStr(NoAuthorsListed)),
        journal |-> Fallback(Or(article.fulljournalname, article.source),
                             JsStr(UnknownJournal)),
        pub_date |-> Fallback(article.pubdate, JsStr(NoDateAvailable)),
        doi |-> JsStr(StripDoi(StringOf(Fallback(article.elocationid, JsStr(<<>>))))),
        abstract |-> Fallback(article.abstract, JsStr(NoAbstractAvailable)),
        keywords |-> ListDisplay(article.keywords),
        mesh_terms |-> ListDisplay(article.mesh_terms),
        is_open_access |-> Or(article.is_pmc, pmcAvailable),
        pmc_available |-> pmcAvailable ]

\* abstract.length > 800 ? abstract.substring(0, 800) + '...' : abstract
DisplayAbstractNoMarker(abstract) ==
  IF Len(abstract) > 800 THEN SubSeq(abstract, 1, 800) ELSE abstract
DisplayAbstract(abstract) ==
  IF Len(abstract) > 800 THEN SubSeq(abstract, 1, 800) \o <<".", ".", ".">> ELSE abstract

\* if (pmc_available && pmcid): the full-text line is added
FullTextLineByFlag(pmc_available, pmcid) == ~Falsy(pmc_available)
FullTextLine(pmc_available, pmcid) == ~Falsy(pmc_available) /\ ~Falsy(pmcid)

\* formatEnhancedArticle, as the parts of the text it returns: the values
\* put into the fixed lines, and for each optional line whether it is there.
FormattedText(articleInfo) ==
  [ title |-> StringOf(articleInfo.title),
    authors |-> StringOf(articleInfo.authors),
    journal |-> StringOf(articleInfo.journal),
    pub_date |-> StringOf(articleInfo.pub_date),
    pmid |-> StringOf(articleInfo.pmid),
    pmcid |-> IF Falsy(articleInfo.pmcid) THEN <<>> ELSE StringOf(articleInfo.pmcid),
    doi |-> IF Falsy(articleInfo.doi) THEN <<>> ELSE StringOf(articleInfo.doi),
    abstract |-> DisplayAbstract(StringOf(articleInfo.abstract)),
    fullTextLine |-> FullTextLine(articleInfo.pmc_available, articleInfo.pmcid),
    openAccessLine |-> ~Falsy(articleInfo.is_open_access),
    keywordsLine |-> ~Falsy(articleInfo.keywords),
    keywords |-> StringOf(articleInfo.keywords),
    meshLine |-> ~Falsy(articleInfo.mesh_terms),
    mesh_terms |-> StringOf(articleInfo.mesh_terms) ]

\* ------------------------------------------------------------------------
\* Tools without remote calls

\* retrieve_pubmed_results: the stored-results feature is not available.
handleRetrievePubmedResults(r) ==
  /\ UNCHANGED doc
  /\ ~MicrotaskPending
  /\ pc[r] = "start"
  /\ input[r].tool = "retrieve_pubmed_results"
  /\ Finish(r, Text("Feature temporarily unavailable", <<>>))
  /\ NoRemoteCall
  /\ UNCHANGED <<input, loc>>

\* list_pubmed_searches: the search history feature is not available.
handleListPubmedSearches(r) ==
  /\ UNCHANGED doc
  /\ ~MicrotaskPending
  /\ pc[r] = "start"
  /\ input[r].tool = "list_pubmed_searches"
  /\ Finish(r, Text("Feature temporarily unavailable", <<>>))
  /\ NoRemoteCall
  /\ UNCHANGED <<input, loc>>

\* get_abstract_help: a fixed help text.
handleGetAbstractHelp(r) ==
  /\ UNCHANGED doc
  /\ ~MicrotaskPending
  /\ pc[r] = "start"
  /\ input[r].tool = "get_abstract_help"
  /\ Finish(r, Text("Help: How to Use get_full_abstract Function", <<>>))
  /\ NoRemoteCall
  /\ UNCHANGED <<input, loc>>

\* ------------------------------------------------------------------------
\* The PubmedArticle elements and article objects that are rendered

\* A text of L characters
Filler(L) == [k \in 1..L |-> <<"a", "b", "c", "d", "e", "f", "g">>[(k % 7) + 1]]

AbstractLengths == {1, 799, 800, 801, 1000}

NoList == [k |-> "absent", items |-> <<>>]
List(items) == [k |-> "list", items |-> items]
\* an Abstract element without AbstractText
NoAbstractText == [k |-> "noText", items |-> <<>>]
NoPubDate == [k |-> "absent", Year |-> Absent, Month |-> Absent, Day |-> Absent]
PubDate(y, m, d) == [k |-> "present", Year |-> y, Month |-> m, Day |-> d]
Author(last, fore) == [LastName |-> last, ForeName |-> fore]

T_kw1 == <<"k", "1">>
T_kw2 == <<"m", "2">>
T_pmc == <<"P", "M", "C", "9">>
T_doi == <<"1", "0", ".", "1", "/", "x">>

\* A PubmedArticle with all of its optional parts
FullRaw ==
  [ MedlineCitation |-> TRUE,
    PMID |-> Obj(<<"3", "5", "5">>, <<>>),
    Article |-> TRUE,
    ArticleTitle |-> Str(<<"T", "i">>),
    Abstract |-> List(<<Obj(<<"a", "b">>, <<"A", "I", "M">>), Str(<<"c", "d">>)>>),
    AuthorList |-> List(<<Author(Str(<<"D", "o">>), Str(<<"J">>)),
                          Author(Str(<<"L", "i">>), Absent)>>),
    Journal |-> TRUE,
    JournalTitle |-> Str(<<"J", "n">>),
    PubDate |-> PubDate(Str(<<"2", "0", "2", "0">>), Str(<<"M", "a", "y">>), Absent),
    ArticleIdList |-> List(<<Obj(<<"3", "5", "5">>, <<"p", "u", "b", "m", "e", "d">>),
                             Obj(T_doi, <<"d", "o", "i">>),
                             Obj(T_pmc, <<"p", "m", "c">>)>>),
    MeshHeadingList |-> List(<<Obj(T_kw1, <<>>), Obj(T_kw2, <<>>)>>),
    KeywordList |-> List(<<Obj(T_kw1, <<>>), Str(T_kw2)>>) ]

OptionalFields ==
  { "PMID", "ArticleTitle", "Abstract", "AuthorList", "JournalTitle", "PubDate",
    "ArticleIdList", "MeshHeadingList", "KeywordList" }

\* FullRaw without the fields of S
Without(S) ==
  [ FullRaw EXCEPT
    !.PMID = IF "PMID" \in S THEN Absent ELSE @,
    !.ArticleTitle = IF "ArticleTitle" \in S THEN Absent ELSE @,
    !.Abstract = IF "Abstract" \in S THEN NoList ELSE @,
    !.AuthorList = IF "AuthorList" \in S THEN NoList ELSE @,
    !.JournalTitle = IF "JournalTitle" \in S THEN Absent ELSE @,
    !.PubDate = IF "PubDate" \in S THEN NoPubDate ELSE @,
    !.ArticleIdList = IF "ArticleIdList" \in S THEN NoList ELSE @,
    !.MeshHeadingList = IF "MeshHeadingList" \in S THEN NoList ELSE @,
    !.KeywordList = IF "KeywordList" \in S THEN NoList ELSE @ ]

\* The shapes an element with text can take: empty, a string, an object
\* with and without text.
ElemShapes == { Str(<<>>), Str(T_kw1), Obj(T_kw1, <<>>), Obj(<<>>, <<>>) }

\* Lists of keywords or MeSH descriptor names of up to two entries
TermLists ==
  { <<>> } \cup { <<e>> : e \in ElemShapes \cup {Absent} }
  \cup { <<e, f>> : e \in ElemShapes, f \in {Str(T_kw2), Obj(<<>>, <<>>), Str(<<>>)} }
  \cup { <<Str(T_kw1), Obj(<<>>, <<>>), Obj(T_kw2, <<>>)>> }

RawRecords ==
  { Without(S) : S \in SUBSET OptionalFields }
  \* a part is absent one level up
  \cup { [Without(S) EXCEPT !.Article = FALSE] : S \in SUBSET {"PMID", "ArticleIdList"} }
  \cup { [FullRaw EXCEPT !.Journal = FALSE], [FullRaw EXCEPT !.MedlineCitation = FALSE] }
  \* the shapes of the single parts
  \cup { [FullRaw EXCEPT !.PMID = e] : e \in ElemShapes }
  \cup { [FullRaw EXCEPT !.ArticleTitle = e] : e \in ElemShapes }
  \cup { [FullRaw EXCEPT !.JournalTitle = e] : e \in ElemShapes }
  \cup { [FullRaw EXCEPT !.Abstract = a] :
           a \in { NoAbstractText, List(<<>>), List(<<Str(<<>>)>>),
                   List(<<Obj(<<>>, <<"A", "I", "M">>)>>),
                   List(<<Obj(T_kw1, <<>>), Obj(<<>>, <<>>), Str(T_kw2)>>) }
                 \cup { List(<<Str(Filler(L))>>) : L \in AbstractLengths }
                 \cup { List(<<Obj(Filler(L), <<"A">>)>>) : L \in {797, 798} } }
  \cup { [FullRaw EXCEPT !.AuthorList = List(as)] :
           as \in { <<>>, <<Author(Absent, Str(<<"J">>))>>, <<Author(Absent, Absent)>>,
                    <<Author(Str(<<>>), Str(<<"J">>)), Author(Str(<<"D", "o">>), Str(<<>>))>> } }
  \cup { [FullRaw EXCEPT !.PubDate = PubDate(y, m, d)] :
           y \in {Absent, Str(<<"2", "0", "2", "0">>)}, m \in {Absent, Str(<<"M", "a", "y">>)},
           d \in {Absent, Str(<<"7">>), Str(<<>>)} }
  \cup { [FullRaw EXCEPT !.ArticleIdList = List(ids)] :
           ids \in { <<>>, <<Obj(T_doi, <<"d", "o", "i">>)>>, <<Obj(T_pmc, <<"p", "m", "c">>)>>,
                     <<Obj(<<>>, <<"p", "m", "c">>)>>, <<Obj(T_pmc, <<>>)>>, <<Str(T_pmc)>>,
                     <<Obj(T_pmc, <<"p", "m", "c">>), Obj(<<>>, <<"d", "o", "i">>)>> } }
  \cup { [FullRaw EXCEPT !.MeshHeadingList = List(es)] : es \in TermLists }
  \* a Keyword element is always there; a MeshHeading may lack its DescriptorName
  \cup { [FullRaw EXCEPT !.KeywordList = List(es)] :
           es \in { l \in TermLists : \A i \in 1..Len(l) : l[i] # Absent } }

\* An esummary entry as search_pmc pushes it: is_pmc and pmcid are set.
PmcSummary ==
  [ EmptyArticle EXCEPT
    !.uid = JsStr(<<"7", "7">>), !.title = JsStr(<<"T", "i">>),
    !.authors = JsArray(<<JsObject(<<"D", "o", " ", "J">>), JsObject(<<"L", "i">>)>>),
    !.source = JsStr(<<"J", "n">>), !.pubdate = JsStr(<<"2", "0", "2", "0">>),
    !.is_pmc = JsTrue, !.pmcid = JsStr(<<"P", "M", "C", "7", "7">>) ]

\* Article objects handed to formatEnhancedArticle without passing through
\* parsePubMedXml: esummary entries, and objects with any combination of the
\* upstream pmc_available flag, is_pmc and pmcid.
ArticleObjects ==
  { PmcSummary, EmptyArticle,
    [PmcSummary EXCEPT !.title = JsUndefined, !.authors = JsUndefined,
                       !.source = JsUndefined, !.pubdate = JsUndefined],
    [PmcSummary EXCEPT !.keywords = JsStr(T_kw1), !.mesh_terms = JsStr(<<>>)] }
  \cup { [EmptyArticle EXCEPT !.uid = JsNum(355), !.pmc_available = f, !.is_pmc = g,
                              !.pmcid = p, !.abstract = a] :
           f \in {JsUndefined, JsFalse, JsTrue}, g \in {JsUndefined, JsTrue},
           p \in {JsUndefined, JsStr(<<>>), JsStr(T_pmc)},
           a \in {JsUndefined, JsStr(<<>>), JsStr(Filler(800)), JsStr(Filler(1000))} }

NoValue == [stage |-> "none"]

\* The property reads of the loop that are not guarded are those of the
\* entries of a list; keyword._ is the one made of an entry itself, and it
\* throws when the entry is undefined.
ThrowsTypeError(raw) ==
  /\ raw.KeywordList.k = "list"
  /\ \E i \in 1..Len(raw.KeywordList.items) : raw.KeywordList.items[i] = Absent

\* parsePubMedXml, for one PubmedArticle: without a MedlineCitation it is
\* skipped, else its articleData is pushed; an error thrown in the loop
\* rejects the whole parse.
parsePubMedXml ==
  /\ doc.stage = "raw"
  /\ doc' = IF ~doc.raw.MedlineCitation THEN [doc EXCEPT !.stage = "skipped"]
            ELSE IF ThrowsTypeError(doc.raw) THEN [doc EXCEPT !.stage = "rejected"]
            ELSE [doc EXCEPT !.stage = "article", !.article = ArticleData(doc.raw)]
  /\ UNCHANGED server

\* formatEnhancedArticle(article): extractEnhancedArticleInfo, then the text
formatEnhancedArticle ==
  /\ doc.stage = "article"
  /\ LET articleInfo == extractEnhancedArticleInfo(doc.article)
     IN  doc' = [doc EXCEPT !.stage = "text", !.info = articleInfo,
                            !.text = FormattedText(articleInfo)]
  /\ UNCHANGED server

InitRecords ==
  /\ InitCommon
  /\ input = [r \in Reqs |-> NoRequest]
  /\ pc = [r \in Reqs |-> "done"]
  /\ \/ \E raw \in RawRecords :
          doc = [stage |-> "raw", raw |-> raw, article |-> NoValue, info |-> NoValue,
                 text |-> NoValue]
     \/ \E article \in ArticleObjects :
          doc = [stage |-> "article", raw |-> NoValue, article |-> article,
                 info |-> NoValue, text |-> NoValue]

NextRecords == parsePubMedXml \/ formatEnhancedArticle

\* One article from the XML element, or from an article object, to its text
SpecRecords == InitRecords /\ [][NextRecords]_vars

\* ------------------------------------------------------------------------
\* Specifications

\* loc.batches (history) records, per answered batch of fetchDetailedArticles,
\* the ids asked for, whether the batch failed, and what was answered.

\* Several requests served concurrently, with a fine-grained clock.
Next ==
  \/ \E r \in Reqs : handleSearchPubmed(r)
  \/ \E r \in Reqs : handleGetFullAbstract(r)
  \/ \E r \in Reqs : handleSearchPmcFulltext(r)
  \/ \E r \in Reqs : fetchDetailedArticles(r)
  \/ RunCallback
  \/ TimerFire
  \/ \E d \in TickSteps : Tick(d)
  \/ \E c \in granted : AxiosGet(c)
  \/ \E r \in Reqs, c \in inflight, a \in EsearchAnswersFew : EsearchResponse(r, c, a)
  \/ \E r \in Reqs, c \in inflight, a \in EfetchAnswersFew : EfetchResponse(r, c, a)
  \/ \E r \in Reqs, c \in inflight, a \in EsearchAnswersFew : PmcEsearchResponse(r, c, a)
  \/ \E r \in Reqs, c \in inflight, a \in EsummaryAnswersFew : PmcEsummaryResponse(r, c, a)

Spec == Init /\ [][Next]_vars

\* One request at a time, with every argument shape and every answer; the
\* clock jumps to the instant the armed timer is due.
NextHandlers ==
  \/ \E r \in Reqs : handleSearchPubmed(r)
  \/ \E r \in Reqs : handleGetFullAbstract(r)
  \/ \E r \in Reqs : handleSearchPmcFulltext(r)
  \/ \E r \in Reqs : handleRetrievePubmedResults(r)
  \/ \E r \in Reqs : handleListPubmedSearches(r)
  \/ \E r \in Reqs : handleGetAbstractHelp(r)
  \/ \E r \in Reqs : fetchDetailedArticles(r)
  \/ RunCallback
  \/ TimerFire
  \/ TickToDeadline
  \/ \E c \in granted : AxiosGet(c)
  \/ \E r \in Reqs, c \in inflight, a \in EsearchAnswers : EsearchResponse(r, c, a)
  \/ \E r \in Reqs, c \in inflight, a \in EfetchAnswers : EfetchResponse(r, c, a)
  \/ \E r \in Reqs, c \in inflight, a \in EsearchAnswers : PmcEsearchResponse(r, c, a)
  \/ \E r \in Reqs, c \in inflight, a \in EsummaryAnswers : PmcEsummaryResponse(r, c, a)

SpecHandlers == InitHandlers /\ [][NextHandlers]_vars

\* The limiter under callers that invoke makeNcbiRequest at any moment,
\* also several in the same turn of the event loop, without waiting for the
\* answer of an earlier call.
Invoke(r) ==
  /\ UNCHANGED doc
  /\ nacquired < MaxCalls
  /\ makeNcbiRequest(r, "esearch.fcgi", <<>>, DEFAULT_MAX_RESULTS)
  /\ loc' = [loc EXCEPT ![r].ncalls = @ + 1]
  /\ UNCHANGED <<input, pc, result>>

AnswerArrives(c) ==
  /\ UNCHANGED doc
  /\ ~MicrotaskPending
  /\ c \in inflight
  /\ inflight' = inflight \ {c}
  /\ UNCHANGED <<sinceLastRequest, requestQueue, timer, granted, input, pc, loc,
                 result, nacquired, ngrants, lastGap>>

NextLimiter ==
  \/ \E r \in Reqs : Invoke(r)
  \/ RunCallback
  \/ TimerFire
  \/ \E d \in TickSteps : Tick(d)
  \/ \E c \in granted : AxiosGet(c)
  \/ \E c \in inflight : AnswerArrives(c)

SpecLimiter == InitLimiter /\ [][NextLimiter]_vars

\* The event loop runs pending promise reactions and due timers, and time
\* passes; nothing is assumed about the answers of the remote service.
FairSpec ==
  /\ Spec
  /\ WF_vars(RunCallback)
  /\ WF_vars(TimerFire)
  /\ WF_vars(\E d \in TickSteps : Tick(d))
  /\ WF_vars(\E c \in granted : AxiosGet(c))
  /\ WF_vars(\E r \in Reqs : fetchDetailedArticles(r))

\* An outbound GET is answered: it completes, fails or times out.
RemoteAnswer ==
  \/ \E r \in Reqs, c \in inflight, a \in EsearchAnswersFew : EsearchResponse(r, c, a)
  \/ \E r \in Reqs, c \in inflight, a \in EfetchAnswersFew : EfetchResponse(r, c, a)
  \/ \E r \in Reqs, c \in inflight, a \in EsearchAnswersFew : PmcEsearchResponse(r, c, a)
  \/ \E r \in Reqs, c \in inflight, a \in EsummaryAnswersFew : PmcEsummaryResponse(r, c, a)

\* In addition to FairSpec, no GET stays outstanding for ever (axios gives
\* up after API_TIMEOUT).  Nothing is assumed about when, or whether, the
\* handler of a request that has not begun is started.
LiveSpec == FairSpec /\ WF_vars(RemoteAnswer)

\* ------------------------------------------------------------------------
\* Rate limiter properties

\* C1: any two consecutive grants of rateLimitedRequest, whichever requests
\* they belong to, are at least RATE_LIMIT_DELAY (340 ms) apart, so the grant
\* timestamps never decrease.
C1_GrantSpacing == ngrants >= 2 => lastGap >= RATE_LIMIT_DELAY

\* Three grants, the latest exactly 340 ms after the one before and given to
\* another request than the one that is still queued.
C1_Witness ==
  /\ ngrants >= 3
  /\ lastGap = RATE_LIMIT_DELAY
  /\ requestQueue # <<>>
  /\ \E c \in granted : c.req # Head(requestQueue).req

\* C2: concurrent callers are granted one at a time in the order in which
\* they invoked rateLimitedRequest: the k-th grant goes to the k-th
\* invocation, the waiting callbacks hold the next tickets in queue order,
\* and a caller's wait is only measured (its timer armed) once every
\* earlier caller has been granted.
C2_FifoGrants ==
  LET waiting == IF timer.armed THEN 1 ELSE 0
  IN  /\ \A c \in granted \cup inflight : c.ticket <= ngrants
      /\ timer.armed => timer.call.ticket = ngrants + 1
      /\ \A k \in 1..Len(requestQueue) :
            requestQueue[k].ticket = ngrants + waiting + k
      /\ nacquired = ngrants + waiting + Len(requestQueue)
      /\ Cardinality(granted) <= 1

\* A caller waits on its timer while two later callers are queued behind it,
\* the first of them from another request.
C2_Witness ==
  /\ timer.armed
  /\ Len(requestQueue) >= 2
  /\ Head(requestQueue).req # timer.call.req
  /\ ngrants >= 1

\* C3: every invocation of rateLimitedRequest is eventually granted, whatever
\* happened to the GETs of earlier grantees: whenever an invocation is not
\* yet granted (nacquired > ngrants), a state follows in which every
\* invocation made by then has been granted. Grants are never withdrawn, so
\* the waiting invocation is among them.
C3_EventuallyGranted == (nacquired > ngrants) ~> (nacquired = ngrants)

\* Every invocation so far has been granted, the latest after waiting while
\* another was queued, and a request whose GET failed has ended.
C3_Witness ==
  /\ ngrants >= 3
  /\ nacquired = ngrants
  /\ lastGap = RATE_LIMIT_DELAY
  /\ \E r \in Reqs : result[r].msg = "PubMed Error"

\* ------------------------------------------------------------------------
\* fetchDetailedArticles properties (one request, every answer)

CeilDiv(n, d) == (n + d - 1) \div d

IsFailed(b) == b.failed
IsEfetch(g) == g.endpoint = "efetch.fcgi"

\* The articles of the batches that succeeded, in batch order.
RECURSIVE SuccessfulRecords(_)
SuccessfulRecords(bs) ==
  IF bs = <<>> THEN <<>>
  ELSE (IF Head(bs).failed THEN <<>> ELSE ParsedArticles(Head(bs).ids, Head(bs).body))
       \o SuccessfulRecords(Tail(bs))

RECURSIVE ConcatIds(_)
ConcatIds(gs) == IF gs = <<>> THEN <<>> ELSE Head(gs).ids \o ConcatIds(Tail(gs))

\* C4: a failed batch (GET failure or unparsable XML) does not end
\* fetchDetailedArticles: all ceil(n/200) batches are answered, the handler
\* returns a text result, and the returned records are the records of the
\* successful batches, concatenated in batch order.
C4_FailedBatchDoesNotAbort ==
  \A r \in Reqs :
    loc[r].fetchDone =>
      /\ result[r].kind = "text"
      /\ Len(loc[r].batches) = CeilDiv(Len(loc[r].pmidList), 200)
      /\ loc[r].returned.records = SuccessfulRecords(loc[r].batches)

\* Batch 2 of 3 failed and the call returned the records of batches 1 and 3.
C4_Witness ==
  \E r \in Reqs :
    /\ loc[r].fetchDone
    /\ Len(loc[r].batches) = 3
    /\ ~loc[r].batches[1].failed
    /\ loc[r].batches[2].failed
    /\ ~loc[r].batches[3].failed
    /\ Len(loc[r].returned.records) = 250
    /\ result[r].msg = "Enhanced PubMed Search"

C6_Batches ==
  \A r \in Reqs :
    LET efetch == SelectSeq(loc[r].gets, IsEfetch)
        n == Len(loc[r].pmidList)
    IN  /\ Len(efetch) <= CeilDiv(n, 200)
        /\ \A k \in 1..Len(efetch) :
              /\ efetch[k].ids = SubSeq(loc[r].pmidList, 200 * (k - 1) + 1, Min(200 * k, n))
              /\ Len(efetch[k].ids) \in 1..200
        /\ loc[r].fetchDone =>
              /\ Len(efetch) = CeilDiv(n, 200)
              /\ ConcatIds(efetch) = loc[r].pmidList

\* 450 ids were fetched with 3 requests of 200, 200 and 50 ids.
C6_Witness ==
  \E r \in Reqs :
    LET efetch == SelectSeq(loc[r].gets, IsEfetch)
    IN  /\ loc[r].fetchDone
        /\ Len(loc[r].pmidList) = 450
        /\ Len(efetch) = 3
        /\ Len(efetch[3].ids) = 50

\* The efetch calls request r has asked the limiter for.
EfetchAsked(r) ==
  loc[r].ncalls - (IF input[r].tool = "search_pubmed" THEN 1 ELSE 0)

\* C7: the batches of one call are fetched one after the other: the limiter
\* is asked for batch k+1 only when batch k has been answered, so a request
\* has at most one call outstanding.
C7_Sequential ==
  \A r \in Reqs :
    /\ Cardinality(Outstanding(r)) <= 1
    /\ pc[r] \in {"fetch", "efetch"} =>
          EfetchAsked(r) = Len(loc[r].batches) + Cardinality(Outstanding(r))

\* The GET of the third batch is outstanding after two batches were answered.
C7_Witness ==
  \E r \in Reqs :
    /\ pc[r] = "efetch"
    /\ Len(loc[r].batches) = 2
    /\ \E c \in inflight : c.req = r /\ c.n = 4

\* ------------------------------------------------------------------------
\* Argument validation properties (one request, every argument shape)

IsSearch(r) == input[r].tool \in {"search_pubmed", "search_pmc_fulltext"}
\* The request passed its validation and asked for its esearch.
Searching(r) == IsSearch(r) /\ loc[r].ncalls >= 1
CapOf(r) == IF input[r].tool = "search_pubmed" THEN 500 ELSE 50
IsNumeric(v) == v.t \in {"number", "Infinity"}

\* v clamped into [1, cap], in halves
ClampedHalves(v, cap) ==
  IF v.t = "Infinity" THEN (IF v.h > 0 THEN 2 * cap ELSE 2)
  ELSE IF v.h > 2 * cap THEN 2 * cap
  ELSE IF v.h < 2 THEN 2
  ELSE v.h

\* the whole part of |v|, clamped into [1, cap]
ClampedMagnitude(v, cap) ==
  LET a == IF v.h < 0 THEN -v.h ELSE v.h
      m == IF v.t = "Infinity" THEN cap ELSE a \div 2
  IN  IF m > cap THEN cap ELSE IF m < 1 THEN 1 ELSE m

IsWholeNumber(v) == v.t = "number" /\ v.h % 2 = 0

\* C8 as stated, for whole numbers: the effective maxResults is the numeric
\* input clamped into [1, cap]; negative inputs become 1.
C8_ClampsInput ==
  \A r \in Reqs :
    Searching(r) /\ IsWholeNumber(input[r].max_results) =>
      2 * loc[r].maxResults = ClampedHalves(input[r].max_results, CapOf(r))

\* C8 amended: the effective maxResults is the whole part of the magnitude
\* of the numeric input, clamped into [1, cap] (cap 500 for search_pubmed, 50
\* for search_pmc_fulltext): a negative input counts with its sign dropped,
\* so -7 becomes 7; it is the retmax sent to esearch.
C8_ClampsMagnitude ==
  \A r \in Reqs :
    Searching(r) /\ IsNumeric(input[r].max_results) =>
      /\ loc[r].maxResults = ClampedMagnitude(input[r].max_results, CapOf(r))
      /\ loc[r].gets # <<>> => loc[r].gets[1].retmax = loc[r].maxResults

\* max_results = -7 was sent to esearch as retmax = 7.
C8_Witness ==
  \E r \in Reqs :
    /\ Searching(r)
    /\ input[r].max_results = JsNum(-7)
    /\ loc[r].gets # <<>>
    /\ loc[r].gets[1].retmax = 7

\* C9: a max_results that is missing, null, NaN or no number makes both
\* search handlers use 10, which is the retmax sent to esearch.
C9_DefaultMaxResults ==
  \A r \in Reqs :
    Searching(r) /\ input[r].max_results.t \in {"undefined", "null", "NaN", "string"} =>
      /\ loc[r].maxResults = 10
      /\ loc[r].gets # <<>> =>
            /\ loc[r].gets[1].endpoint = "esearch.fcgi"
            /\ loc[r].gets[1].retmax = 10

\* max_results = "abc" was sent to esearch as retmax = 10.
C9_Witness ==
  \E r \in Reqs :
    /\ input[r].max_results = JsStr(<<"a", "b", "c">>)
    /\ loc[r].gets # <<>>
    /\ loc[r].gets[1].retmax = 10

\* A query that is missing, empty or only whitespace.
BlankQuery(q) ==
  \/ q.t \in {"undefined", "null"}
  \/ q.t = "string" /\ \A k \in 1..Len(q.s) : q.s[k] \in WhiteSpace

\* The ids of Pmids that are missing or, without their quotes, not all digits.
RejectedPmids ==
  { JsUndefined, JsNull, JsStr(<<>>), JsNum(-7), JsHalves(7),
    JsStr(<<"a", "b", "c">>), JsStr(<<"3", "5", "a">>),
    JsStr(<<"\"", "3", "5", "'">>), JsStr(<<"\"", "\"", "3", "\"", "\"">>),
    JsStr(<<"\"">>), JsStr(<<"\"", "a", "\"">>) }

Rejected(r) ==
  \/ IsSearch(r) /\ BlankQuery(input[r].query)
  \/ input[r].tool = "get_full_abstract" /\ input[r].pmid \in RejectedPmids

\* C10: a search with a blank query and a get_full_abstract with a missing
\* or non-numeric id end with a text message and without any remote call:
\* the limiter is never asked, no GET is issued, the limiter state stays as
\* it was.
C10_RejectedBeforeRemoteCall ==
  \A r \in Reqs :
    Rejected(r) =>
      /\ loc[r].ncalls = 0
      /\ loc[r].gets = <<>>
      /\ nacquired = 0 /\ ngrants = 0
      /\ requestQueue = <<>> /\ ~timer.armed /\ granted = {} /\ inflight = {}
      /\ sinceLastRequest = TimeCap
      /\ pc[r] \in {"start", "done"}
      /\ pc[r] = "done" =>
            /\ result[r].kind = "text"
            /\ result[r].msg \in {"Please provide a search query.",
                                   "Please provide a valid PMID.", "Invalid PMID format"}

\* A whitespace-only query was answered with the request for a query.
C10_Witness ==
  \E r \in Reqs :
    /\ input[r].query = JsStr(<<" ", "\t">>)
    /\ pc[r] = "done"
    /\ result[r].msg = "Please provide a search query."

\* ------------------------------------------------------------------------
\* get_full_abstract: the accepted ids

\* The ids of Pmids the claim accepts, each with the id it is fetched as: a
\* number, a digit string (also with white space around it), a digit string
\* in one matching pair of double or single quotes.
AcceptedPmids ==
  { <<JsNum(355), <<"3", "5", "5">> >>,
    <<JsStr(<<"3", "5", "5">>), <<"3", "5", "5">> >>,
    <<JsStr(<<"0", "0", "7">>), <<"0", "0", "7">> >>,
    <<JsStr(<<" ", "3", "5", " ">>), <<"3", "5">> >>,
    <<JsStr(<<"\"", "3", "5", "\"">>), <<"3", "5">> >>,
    <<JsStr(<<"'", "3", "5", "'">>), <<"3", "5">> >> }

IsGetFullAbstract(r) == input[r].tool = "get_full_abstract"

\* C11: get_full_abstract fetches exactly the ids given as a number, a digit
\* string, or a digit string in one matching pair of quotes; the id it
\* fetches is the trimmed value without that pair of quotes, and it is all
\* digits.  Every other id ends without a fetch.
C11_AcceptedIds ==
  \A r \in Reqs :
    IsGetFullAbstract(r) /\ pc[r] # "start" =>
      /\ loc[r].ncalls >= 1 =>
            /\ \E a \in AcceptedPmids :
                  /\ input[r].pmid = a[1]
                  /\ loc[r].pmidList = <<a[2]>>
                  /\ \A k \in 1..Len(loc[r].gets) : loc[r].gets[k].ids = <<a[2]>>
            /\ \A k \in 1..Len(loc[r].pmidList[1]) : loc[r].pmidList[1][k] \in Digits
      /\ (\E a \in AcceptedPmids : input[r].pmid = a[1]) =>
            (pc[r] = "done" => loc[r].fetchDone /\ Len(loc[r].gets) = 1)
      /\ (\A a \in AcceptedPmids : input[r].pmid # a[1]) =>
            pc[r] = "done" /\ loc[r].ncalls = 0

\* The id "35" in double quotes was fetched as 35.
C11_Witness ==
  \E r \in Reqs :
    /\ input[r].pmid = JsStr(<<"\"", "3", "5", "\"">>)
    /\ pc[r] = "done"
    /\ loc[r].gets # <<>>
    /\ loc[r].gets[1].endpoint = "efetch.fcgi"
    /\ loc[r].gets[1].ids = << <<"3", "5">> >>
    /\ result[r].msg = "Complete Abstract"

\* ------------------------------------------------------------------------
\* Remote errors at the handler boundary

PubMedErrorMessages ==
  { "Request timed out. Please try again.", "API request failed with status",
    "Failed to fetch data from NCBI" }

\* C12: a request of search_pubmed, search_pmc_fulltext or get_full_abstract
\* that made a remote call ends with a text payload whatever the remote
\* service answered: a failed esearch or esummary GET is reported as text
\* quoting the PubMedError, failed or unparsable efetch batches leave a text
\* result, and an McpError is only ever returned before any remote call.
C12_RemoteErrorsBecomeText ==
  \A r \in Reqs :
    pc[r] = "done" =>
      /\ loc[r].ncalls >= 1 => result[r].kind = "text"
      /\ result[r].kind = "McpError" => loc[r].ncalls = 0 /\ result[r].detail = ""
      /\ result[r].detail # "" =>
            /\ result[r].msg \in {"PubMed Error", "PMC Error"}
            /\ result[r].detail \in PubMedErrorMessages
      /\ (loc[r].batches # <<>> /\ \A k \in 1..Len(loc[r].batches) : loc[r].batches[k].failed) =>
            result[r].msg \in {"No article details could be retrieved",
                               "No article found for PMID"}

\* The esummary GET of a search_pmc_fulltext request was answered with a
\* non-2xx status and the request returned the text of the PMC error.
C12_Witness ==
  \E r \in Reqs :
    /\ input[r].tool = "search_pmc_fulltext"
    /\ pc[r] = "done"
    /\ Len(loc[r].gets) = 2
    /\ result[r].kind = "text"
    /\ result[r].msg = "PMC Error"
    /\ result[r].detail = "API request failed with status"

\* ------------------------------------------------------------------------
\* makeNcbiRequest: one GET per call, after the grant

\* The calls of request r that have not been granted yet.
NotGranted(r) ==
  { c \in Outstanding(r) : c \notin granted /\ c \notin inflight }

\* C13: a GET is issued only by a call whose rateLimitedRequest has been
\* granted, every call issues one GET and no more (the k-th GET of a request
\* belongs to its k-th call), and a failed GET is not issued again: the
\* request that awaited it ends with the PubMedError or records the failed
\* batch, with as many GETs as calls.
C13_OneGetAfterGrant ==
  \A r \in Reqs :
    LET gets == loc[r].gets
    IN  /\ \A k \in 1..Len(gets) : gets[k].n = k
        /\ Len(gets) = loc[r].ncalls - Cardinality({ c \in Outstanding(r) : c \notin inflight })
        /\ \A c \in NotGranted(r) : c.ticket > ngrants /\ Len(gets) < c.n
        /\ \A c \in Outstanding(r) \ NotGranted(r) : c.ticket <= ngrants
        /\ \A c \in inflight :
              c.req = r => Len(gets) = c.n /\ gets[c.n].endpoint = c.endpoint
        /\ pc[r] = "done" /\ result[r].detail # "" =>
              /\ Len(gets) = loc[r].ncalls
              /\ result[r].detail \in PubMedErrorMessages
        /\ \A k \in 1..Len(loc[r].batches) :
              loc[r].batches[k].failed =>
                /\ loc[r].batches[k].message \in PubMedErrorMessages \cup {"Failed to parse XML"}
                /\ Len(SelectSeq(gets, IsEfetch)) =
                      Len(loc[r].batches) + Cardinality(inflight \cap Outstanding(r))

\* Two requests are served: the GET of one timed out and ended its request
\* with the PubMedError after that single GET, while the call of the other
\* waits for its grant and has issued no GET.
C13_Witness ==
  \E r, q \in Reqs :
    /\ pc[r] = "done"
    /\ result[r].msg = "PubMed Error"
    /\ result[r].detail = "Request timed out. Please try again."
    /\ Len(loc[r].gets) = 1 /\ loc[r].ncalls = 1
    /\ timer.armed /\ timer.call.req = q
    /\ loc[q].ncalls = 1 /\ loc[q].gets = <<>>

\* ------------------------------------------------------------------------
\* Remote calls per request

IsEsearch(g) == g.endpoint = "esearch.fcgi"
IsEsummary(g) == g.endpoint = "esummary.fcgi"

\* C19: a search_pubmed request hands at most maxResults <= 500 ids to
\* fetchDetailedArticles whatever esearch listed, and so makes one esearch
\* call and at most 3 efetch calls; a valid get_full_abstract request makes
\* one efetch call; a search_pmc_fulltext request makes at most 2 calls,
\* esearch then esummary, and no efetch; the help and the two history tools
\* make none.
C19_RemoteCallsBounded ==
  \A r \in Reqs :
    LET gets == loc[r].gets
        tool == input[r].tool
    IN  /\ tool = "search_pubmed" =>
              /\ Len(loc[r].pmidList) <= loc[r].maxResults
              /\ loc[r].maxResults <= 500
              /\ loc[r].ncalls <= 4
              /\ Len(SelectSeq(gets, IsEfetch)) <= 3
              /\ gets # <<>> =>
                    /\ IsEsearch(gets[1])
                    /\ Len(SelectSeq(gets, IsEsearch)) = 1
                    /\ SelectSeq(gets, IsEsummary) = <<>>
        /\ tool = "get_full_abstract" =>
              /\ loc[r].ncalls <= 1
              /\ \A k \in 1..Len(gets) : IsEfetch(gets[k])
              /\ loc[r].fetchDone => Len(gets) = 1
        /\ tool = "search_pmc_fulltext" =>
              /\ loc[r].ncalls <= 2
              /\ SelectSeq(gets, IsEfetch) = <<>>
              /\ Len(gets) >= 1 => IsEsearch(gets[1])
              /\ Len(gets) = 2 => IsEsummary(gets[2])
        /\ tool \in LocalTools =>
              /\ loc[r].ncalls = 0 /\ gets = <<>>
              /\ nacquired = 0 /\ requestQueue = <<>>
              /\ pc[r] = "done" => result[r].kind = "text"

\* esearch listed 600 ids for max_results = 1000: 500 of them were fetched
\* with 3 efetch calls after the one esearch call.
C19_Witness ==
  \E r \in Reqs :
    /\ input[r].tool = "search_pubmed"
    /\ input[r].max_results = JsNum(1000)
    /\ pc[r] = "done"
    /\ Len(loc[r].pmidList) = 500
    /\ Len(loc[r].gets) = 4
    /\ Len(loc[r].gets[4].ids) = 100

\* ------------------------------------------------------------------------
\* Termination of the tool requests

\* A request whose handler has begun and has not returned.
InProgress(r) == pc[r] \notin {"start", "done"}

\* C17: when every GET is eventually answered and timers fire, every request
\* in progress eventually returns a result, also while other requests share
\* the limiter and when its GETs fail: whenever some request is in progress,
\* a state follows in which none is.  A request in progress never goes back
\* to its start, so it has returned by then.
C17_EveryRequestReturns ==
  (\E r \in Reqs : InProgress(r))
    ~> (\A r \in Reqs : ~InProgress(r) /\ (pc[r] = "done" => result[r].kind # "pending"))

\* Two requests that both had to wait for the limiter have returned, one of
\* them with no article because its batch failed.
C17_Witness ==
  \E r, q \in Reqs :
    /\ r # q
    /\ \A x \in Reqs : pc[x] = "done"
    /\ requestQueue = <<>> /\ ~timer.armed /\ inflight = {}
    /\ loc[r].ncalls >= 2 /\ loc[q].ncalls >= 1
    /\ ngrants = nacquired /\ ngrants >= 3
    /\ loc[r].batches # <<>> /\ loc[r].batches[1].failed
    /\ result[r].msg \in {"No article details could be retrieved",
                           "No article found for PMID"}

\* ------------------------------------------------------------------------
\* C14: a formatted article shows an abstract of at most 800 characters as
\* it is, and of a longer one its first 800 characters followed by "...",
\* which makes 803 characters; the abstract of the record keeps its full
\* length, which is that of the article's abstract.
C14_AbstractTruncatedAt800 ==
  doc.stage = "text" =>
    LET abstract == StringOf(doc.info.abstract)
        shown == doc.text.abstract
        L == Len(abstract)
    IN  /\ Len(shown) = IF L <= 800 THEN L ELSE 803
        /\ \A i \in 1..Min(L, 800) : shown[i] = abstract[i]
        /\ L > 800 => \A i \in 801..803 : shown[i] = "."
        /\ ~Falsy(doc.article.abstract) => doc.info.abstract = doc.article.abstract
        /\ \A n \in AbstractLengths :
             (doc.raw # NoValue /\ doc.raw.Article /\ doc.raw.Abstract = List(<<Str(Filler(n))>>))
               => L = n

C14_Witness ==
  /\ doc.stage = "text"
  /\ doc.raw # NoValue
  /\ Len(StringOf(doc.info.abstract)) = 1000
  /\ Len(doc.text.abstract) = 803

\* ------------------------------------------------------------------------
\* C15: pmc_available of the record is true exactly when the article has a
\* pmcid or its upstream pmc_available flag is set.  As claimed, the
\* formatted text has the full-text line exactly when pmc_available is true,
\* so that an article flagged upstream without a pmcid has the line.
HasPmcid == ~Falsy(doc.article.pmcid)
FlaggedUpstream == ~Falsy(doc.article.pmc_available)

InfoFields ==
  { "pmid", "pmcid", "title", "authors", "journal", "pub_date", "doi", "abstract",
    "keywords", "mesh_terms", "is_open_access", "pmc_available" }

C16_NormalizerTotal ==
  /\ doc.stage # "rejected"
  /\ (doc.stage = "text") =>
       LET info == doc.info
           article == doc.article
       IN  /\ DOMAIN info = InfoFields
           /\ \A f \in InfoFields : info[f].t \notin {"undefined", "null"}
           /\ article.uid = JsUndefined => info.pmid = JsStr(NoPMID)
           /\ article.title = JsUndefined => info.title = JsStr(NoTitleAvailable)
           /\ article.authors \in {JsUndefined, JsArray(<<>>)}
                => info.authors = JsStr(NoAuthorsListed)
           /\ (article.fulljournalname = JsUndefined /\ article.source = JsUndefined)
                => info.journal = JsStr(UnknownJournal)
           /\ article.pubdate = JsUndefined => info.pub_date = JsStr(NoDateAvailable)
           /\ article.abstract = JsUndefined => info.abstract = JsStr(NoAbstractAvailable)
           /\ article.pmcid = JsUndefined => info.pmcid = JsStr(<<>>)
           /\ article.elocationid = JsUndefined => info.doi = JsStr(<<>>)
           /\ article.keywords \in {JsUndefined, JsArray(<<>>)} => info.keywords = JsStr(<<>>)
           /\ article.mesh_terms \in {JsUndefined, JsArray(<<>>)}
                => info.mesh_terms = JsStr(<<>>)
           /\ (article.pmcid = JsUndefined /\ article.pmc_available = JsUndefined)
                => info.pmc_available = JsFalse
           /\ (article.pmcid = JsUndefined /\ article.pmc_available = JsUndefined
                 /\ article.is_pmc = JsUndefined)
                => info.is_open_access = JsFalse
  /\ (doc.stage = "text" /\ doc.raw # NoValue) =>
       LET info == doc.info
           raw == doc.raw
       IN  /\ raw.PMID = Absent => info.pmid = JsStr(NoPMID)
           /\ (~raw.Article \/ raw.ArticleTitle = Absent)
                => info.title = JsStr(NoTitleAvailable)
           /\ (~raw.Article \/ raw.Abstract \in {NoList, NoAbstractText})
                => info.abstract = JsStr(NoAbstractAvailable)
           /\ (~raw.Article \/ raw.AuthorList = NoList)
                => info.authors = JsStr(NoAuthorsListed)
           /\ (~raw.Article \/ ~raw.Journal \/ raw.JournalTitle = Absent)
                => info.journal = JsStr(UnknownJournal)
           /\ (~raw.Article \/ ~raw.Journal \/ raw.PubDate = NoPubDate)
                => info.pub_date = JsStr(NoDateAvailable)
           /\ raw.ArticleIdList = NoList
                => /\ info.pmcid = JsStr(<<>>)
                   /\ info.doi = JsStr(<<>>)
                   /\ info.pmc_available = JsFalse
                   /\ info.is_open_access = JsFalse
           /\ raw.KeywordList = NoList => info.keywords = JsStr(<<>>)
           /\ raw.MeshHeadingList = NoList => info.mesh_terms = JsStr(<<>>)

\* every optional part is absent and every field is its fallback
C16_Witness ==
  /\ doc.stage = "text"
  /\ doc.raw = Without(OptionalFields)
  /\ doc.info.pmid = JsStr(NoPMID)
  /\ doc.info.title = JsStr(NoTitleAvailable)
  /\ doc.info.authors = JsStr(NoAuthorsListed)
  /\ doc.info.mesh_terms = JsStr(<<>>)
  /\ doc.info.is_open_access = JsFalse

\* ------------------------------------------------------------------------
\* C18: the keywords and the MeSH terms of an article are the texts of the
\* entries of its lists, of a plain string as of an object with text, in
\* their order and without the entries that have no text: every item is a
\* non-empty string, and the comma-joined strings of the record have no
\* empty item.
RECURSIVE TextsOf(_)
TextsOf(es) ==
  IF es = <<>> THEN <<>>
  ELSE (IF Head(es).s # <<>> THEN <<JsStr(Head(es).s)>> ELSE <<>>) \o TextsOf(Tail(es))

ItemsOf(list) == IF list.k = "list" THEN list.items ELSE <<>>

OnlyTexts(terms, joined, entries) ==
  /\ terms = JsArray(TextsOf(entries))
  /\ \A i \in 1..Len(terms.s) : terms.s[i].t = "string" /\ terms.s[i].s # <<>>
  /\ doc.stage = "text" => joined = JsStr(Join(TextsOf(entries), CommaSpace))

C18_KeywordsOnlyTexts ==
  (doc.stage \in {"article", "text"} /\ doc.raw # NoValue) =>
    OnlyTexts(doc.article.keywords, doc.info.keywords, ItemsOf(doc.raw.KeywordList))

C18_MeshOnlyTexts ==
  (doc.stage \in {"article", "text"} /\ doc.raw # NoValue) =>
    OnlyTexts(doc.article.mesh_terms, doc.info.mesh_terms, ItemsOf(doc.raw.MeshHeadingList))

C18_TermsOnlyTexts == C18_KeywordsOnlyTexts /\ C18_MeshOnlyTexts

====
